---- MODULE Spec2Model ----
(***************************************************************************)
(* Model of swupdate-client.go: the Update orchestrator (WebSocket dial,   *)
(* background listener, firmware upload, settling delay, optional restart),*)
(* the event classifier and the log sink, together with main as caller.    *)
(*                                                                         *)
(* Time is counted in seconds.  A blocking network call either completes   *)
(* at once or hangs until the timeout that bounds it.                      *)
(***************************************************************************)
EXTENDS Integers, Sequences, FiniteSets, TLC

\* Largest number of frames the peer sends on the WebSocket in one run.
MaxEvents == 2

\* http.StatusOK
StatusOK == 200

\* time.Sleep(2 * time.Second) in Update
SettleDelay == 2

\* Values of -timeout, in seconds: one shorter and one longer than the
\* settling delay.
Timeouts == {1, 3}

\* Final HTTP status codes a server answers with.
StatusCodes == {200, 201, 299, 404, 500}

\* What the HTTP server does with a request: answer with a status code,
\* refuse/reset the connection, or never answer.
Resp(kind, code) == [kind |-> kind, code |-> code]
Responses ==
    {Resp("status", c) : c \in StatusCodes} \cup {Resp("neterr", 0), Resp("hang", 0)}

\* Go error values, by the fmt.Errorf that builds them.
Err(op, kind, code) == [op |-> op, kind |-> kind, code |-> code]
NoErr == Err("", "nil", 0)
\* No value yet: the function has not returned.
Pending == Err("", "pending", 0)

VARIABLES
    config,      \* Config: Filename, Timeout, Verbose, JSONOutput, TLS
    restart,     \* the -restart flag / Update's restart argument
    env,         \* the world: file system, certificates, servers, caller
    pc,          \* position of the foreground task (main / Update)
    now,         \* seconds elapsed since the caller created ctx
    cancelled,   \* the caller has cancelled ctx
    wsCancelled, \* wsCancel() has been called
    wsConn,      \* c.wsConn: "nil", "open" or "closed"
    lpc,         \* position of the listener goroutine
    inbox,       \* frames received on the WebSocket and not yet read
    sent,        \* number of frames the peer has sent
    sink,        \* everything written to stdout / stderr, in order
    net,         \* requests put on the wire, in order
    calls,       \* sub-operations Update has invoked, in order
    connErr,     \* value returned by connectWebSocket
    uploadErr,   \* value returned by uploadFirmware
    restartErr,  \* value returned by restartDevice
    result,      \* value returned by Update
    exitCode,    \* process exit status (-1 while running)
    runNo,       \* 1 for the first invocation, 2 for a repeated one
    prev,        \* outcome of the first invocation, kept for comparison
    arrived,     \* history: every frame the peer has sent, in order
    handled,     \* history: every event handleWebSocketEvent was called
                 \* with, what it wrote, and where in the sink
    tlsConfig,   \* what createTLSConfig returned when called by itself
    written      \* the terminal: what each print call has written, in order

vars == <<config, restart, env, pc, now, cancelled, wsCancelled, wsConn, lpc,
          inbox, sent, sink, net, calls, connErr, uploadErr, restartErr, result,
          exitCode, runNo, prev, arrived, handled, tlsConfig, written>>

(***************************************************************************)
(* createTLSConfig                                                         *)
(***************************************************************************)

\* What the flags -ca-cert, -client-cert and -client-key can name: nothing,
\* a file that is what the flag asks for, or one that is not.
CAFiles == {"", "ca.pem", "missing.pem", "junk.pem"}
ClientCertFiles == {"", "client.crt", "bad.crt"}
ClientKeyFiles == {"", "client.key", "bad.key"}

\* os.ReadFile succeeds; AppendCertsFromPEM finds a certificate;
\* tls.LoadX509KeyPair accepts the pair.
ReadFileOK(path) == path \in {"ca.pem", "junk.pem"}
AppendCertsFromPEM(path) == path = "ca.pem"
LoadX509KeyPairOK(cert, key) == cert = "client.crt" /\ key = "client.key"

\* The pair (*tls.Config, error) createTLSConfig returns; RootCAs "" is the
\* nil pool (the system's roots), Certificates <<>> is no client identity.
TLSResult(err, skip, roots, certs) ==
    [err |-> err, InsecureSkipVerify |-> skip, RootCAs |-> roots,
     Certificates |-> certs]
TLSError(err) == TLSResult(err, FALSE, "", <<>>)
NotBuilt == TLSError("not called")

\* Mutant of createTLSConfig: with verification switched off the trust root
\* is not loaded.
createTLSConfig_skipsRoots(c) ==
    IF ~c.InsecureTLS /\ c.CertFile # "" /\ ~ReadFileOK(c.CertFile)
    THEN TLSError("failed to read CA certificate file")
    ELSE IF ~c.InsecureTLS /\ c.CertFile # "" /\ ~AppendCertsFromPEM(c.CertFile)
    THEN TLSError("failed to parse CA certificate")
    ELSE IF /\ c.ClientCertFile # "" /\ c.ClientKeyFile # ""
            /\ ~LoadX509KeyPairOK(c.ClientCertFile, c.ClientKeyFile)
    THEN TLSError("failed to load client certificate")
    ELSE TLSResult("nil", c.InsecureTLS,
                   IF c.InsecureTLS THEN "" ELSE c.CertFile,
                   IF c.ClientCertFile # "" /\ c.ClientKeyFile # ""
                   THEN <<c.ClientCertFile, c.ClientKeyFile>> ELSE <<>>)

createTLSConfig(c) ==
    IF c.CertFile # "" /\ ~ReadFileOK(c.CertFile)
    THEN TLSError("failed to read CA certificate file")
    ELSE IF c.CertFile # "" /\ ~AppendCertsFromPEM(c.CertFile)
    THEN TLSError("failed to parse CA certificate")
    ELSE IF /\ c.ClientCertFile # "" /\ c.ClientKeyFile # ""
            /\ ~LoadX509KeyPairOK(c.ClientCertFile, c.ClientKeyFile)
    THEN TLSError("failed to load client certificate")
    ELSE TLSResult("nil", c.InsecureTLS, c.CertFile,
                   IF c.ClientCertFile # "" /\ c.ClientKeyFile # ""
                   THEN <<c.ClientCertFile, c.ClientKeyFile>> ELSE <<>>)

(***************************************************************************)
(* Contexts                                                                *)
(***************************************************************************)

\* Mutant of CtxDone: only the deadline ends the context, not the caller.
CtxDone_deadlineOnly == env.deadline /\ now >= config.Timeout

\* ctx.Done() of the caller's context: main builds it with
\* context.WithTimeout(context.Background(), config.Timeout).
CtxDone == cancelled \/ (env.deadline /\ now >= config.Timeout)

\* Mutant of WsCtxDone: the child scope is derived from context.Background().
WsCtxDone_detached == wsCancelled

\* wsCtx.Done(): wsCtx, wsCancel := context.WithCancel(ctx)
WsCtxDone == wsCancelled \/ CtxDone

\* The instant at which a wait that would end at t returns: the caller's
\* deadline cuts it short.
EndOfWait(t) ==
    IF env.deadline /\ config.Timeout < t THEN config.Timeout ELSE t

(***************************************************************************)
(* Log sink                                                                *)
(***************************************************************************)

\* Mutant of Printed: INFO lines are printed whatever their category.
Printed_everyInfo(msgType, level) == TRUE

\* The switch of logMessage in console mode: is the line printed?
Printed(msgType, level) ==
    CASE level = "ERROR" -> TRUE
      [] level = "WARN" -> TRUE
      [] level = "INFO" ->
            config.Verbose \/ msgType = "status" \/ msgType = "progress"
      [] OTHER -> TRUE

\* json.Marshal(logMsg) for LogMessage{Type, Level, Message, Time}: a JSON
\* object is the function from the keys it holds to their values; the tag
\* of Level is omitempty; Time is time.Now().
MarshalLogMessage(msgType, level, message) ==
    [k \in {"type", "message", "time"} \cup (IF level = "" THEN {} ELSE {"level"}) |->
        CASE k = "type" -> msgType
          [] k = "level" -> level
          [] k = "message" -> message
          [] k = "time" -> "time.Now()"]

\* The text logMessage prints in console mode.
ConsoleLine(level, message) ==
    CASE level = "ERROR" -> <<"Error: %s">> \o message
      [] level = "WARN" -> <<"Warning: %s">> \o message
      [] OTHER -> message

\* c.logMessage(msgType, level, message): the record handed to the sink and
\* the line it makes on stdout.
logMessage(msgType, level, message) ==
    [ch |-> IF config.JSONOutput THEN "json" ELSE "console",
     type |-> msgType, level |-> level, msg |-> message,
     printed |-> IF config.JSONOutput THEN TRUE ELSE Printed(msgType, level),
     line |-> IF config.JSONOutput
              THEN MarshalLogMessage(msgType, level, message)
              ELSE ConsoleLine(level, message)]

\* log.Printf / log.Println / fmt.Fprintf(os.Stderr, ...): a line on stderr,
\* with no category and no level field.
StdLog(message) ==
    [ch |-> "stderr", type |-> "", level |-> "", msg |-> message, printed |-> TRUE,
     line |-> message]

\* The lines only -verbose produces.
VerboseLog(message) == IF config.Verbose THEN <<StdLog(message)>> ELSE <<>>

WarnConnect == <<"Warning: Failed to connect to WebSocket: %v">>
WarnRestart == <<"Warning: Failed to restart device: %v">>

(***************************************************************************)
(* Event classifier                                                        *)
(***************************************************************************)

\* An SWUpdateEvent; a field missing from the JSON object is "".
Event(type, status, level, text, step, number, name, percent, source) ==
    [Type |-> type, Status |-> status, Level |-> level, Text |-> text,
     Step |-> step, Number |-> number, Name |-> name, Percent |-> percent,
     Source |-> source]

\* The statusMessages table of handleStatusEvent.
StatusKnown == {"START", "RUN", "SUCCESS", "FAILURE", "DONE", "IDLE"}

\* Mutant of StatusLevel: every status of the table is reported as INFO.
StatusLevel_allInfo(s) == "INFO"

StatusLevel(s) == IF s = "FAILURE" THEN "ERROR" ELSE "INFO"
StatusMessage(s) ==
    CASE s = "START" -> <<"Update started">>
      [] s = "RUN" -> <<"Update running">>
      [] s = "SUCCESS" -> <<"Update completed successfully">>
      [] s = "FAILURE" -> <<"Update failed">>
      [] s = "DONE" -> <<"Update process finished">>
      [] s = "IDLE" -> <<"System idle">>

\* Mutant of handleStatusEvent: IDLE is reported like any other status.
handleStatusEvent_idleAlways(event) ==
    IF event.Status \in StatusKnown
    THEN <<logMessage("status", StatusLevel(event.Status),
                      StatusMessage(event.Status))>>
    ELSE <<logMessage("status", "INFO", <<"Status: %s", event.Status>>)>>

handleStatusEvent(event) ==
    IF event.Status \in StatusKnown
    THEN IF event.Status = "IDLE" /\ ~config.Verbose
         THEN <<>>
         ELSE <<logMessage("status", StatusLevel(event.Status),
                           StatusMessage(event.Status))>>
    ELSE <<logMessage("status", "INFO", <<"Status: %s", event.Status>>)>>

\* Mutant of handleStepEvent: the step counter is looked at first.
handleStepEvent_stepFirst(event) ==
    IF event.Step # "" /\ event.Number # ""
    THEN <<logMessage("progress", "INFO",
                      <<"Step %s of %s", event.Step, event.Number>>)>>
    ELSE IF event.Percent # "" /\ event.Name # ""
    THEN <<logMessage("progress", "INFO",
                      <<"Installing %s: %s%%", event.Name, event.Percent>>)>>
    ELSE <<>>

handleStepEvent(event) ==
    IF event.Percent # "" /\ event.Name # ""
    THEN <<logMessage("progress", "INFO",
                      <<"Installing %s: %s%%", event.Name, event.Percent>>)>>
    ELSE IF event.Step # "" /\ event.Number # ""
    THEN <<logMessage("progress", "INFO",
                      <<"Step %s of %s", event.Step, event.Number>>)>>
    ELSE <<>>

\* Mutant of handleMessageEvent: a message without text is never reported.
handleMessageEvent_needsText(event) ==
    IF event.Text = ""
    THEN <<>>
    ELSE CASE event.Level = "ERROR" -> <<logMessage("message", "ERROR", <<event.Text>>)>>
           [] event.Level = "WARN" -> <<logMessage("message", "WARN", <<event.Text>>)>>
           [] OTHER ->
                 IF config.Verbose
                 THEN <<logMessage("message", "INFO", <<event.Text>>)>>
                 ELSE <<>>

\* Mutant of handleMessageEvent: the record takes the level of the event as
\* it is.
handleMessageEvent_levelAsIs(event) ==
    CASE event.Level = "ERROR" -> <<logMessage("message", "ERROR", <<event.Text>>)>>
      [] event.Level = "WARN" -> <<logMessage("message", "WARN", <<event.Text>>)>>
      [] OTHER ->
            IF config.Verbose /\ event.Text # ""
            THEN <<logMessage("message", event.Level, <<event.Text>>)>>
            ELSE <<>>

handleMessageEvent(event) ==
    CASE event.Level = "ERROR" -> <<logMessage("message", "ERROR", <<event.Text>>)>>
      [] event.Level = "WARN" -> <<logMessage("message", "WARN", <<event.Text>>)>>
      [] OTHER ->
            IF config.Verbose /\ event.Text # ""
            THEN <<logMessage("message", "INFO", <<event.Text>>)>>
            ELSE <<>>

handleInfoEvent(event) ==
    IF config.Verbose /\ event.Text # ""
    THEN <<logMessage("info", "INFO", <<event.Text>>)>>
    ELSE <<>>

\* Mutant of handleSourceEvent: a source event without a source is dropped.
handleSourceEvent_needsSource(event) ==
    IF config.Verbose /\ event.Source # ""
    THEN <<logMessage("source", "INFO", <<"Update source: %s", event.Source>>)>>
    ELSE <<>>

handleSourceEvent(event) ==
    IF config.Verbose
    THEN <<logMessage("source", "INFO", <<"Update source: %s", event.Source>>)>>
    ELSE <<>>

\* Mutant of handleUnknownEvent: an unknown kind is reported twice.
handleUnknownEvent_twice(event) ==
    IF config.Verbose
    THEN <<logMessage("unknown", "INFO", <<"Unknown event type: %s", event.Type>>),
           logMessage("unknown", "INFO", <<"Unknown event type: %s", event.Type>>)>>
    ELSE <<>>

handleUnknownEvent(event) ==
    IF config.Verbose
    THEN <<logMessage("unknown", "INFO", <<"Unknown event type: %s", event.Type>>)>>
    ELSE <<>>

\* The json tags of SWUpdateEvent: the key of each field.  Every key but
\* "type" is omitempty.
EventKeys ==
    {"type", "level", "text", "number", "step", "name", "percent", "status", "source"}
FieldOf(key) ==
    CASE key = "type" -> "Type"
      [] key = "level" -> "Level"
      [] key = "text" -> "Text"
      [] key = "number" -> "Number"
      [] key = "step" -> "Step"
      [] key = "name" -> "Name"
      [] key = "percent" -> "Percent"
      [] key = "status" -> "Status"
      [] key = "source" -> "Source"

\* Mutant of MarshalEvent: the source field is never written.
MarshalEvent_withoutSource(event) ==
    [k \in {k \in EventKeys \ {"source"} : k = "type" \/ event[FieldOf(k)] # ""} |->
        event[FieldOf(k)]]

\* json.Marshal(event): an object with the keys of the fields that are set.
MarshalEvent(event) ==
    [k \in {k \in EventKeys : k = "type" \/ event[FieldOf(k)] # ""} |->
        event[FieldOf(k)]]

\* json.Unmarshal / ReadJSON into an SWUpdateEvent: a key that is missing
\* leaves its field empty.
FieldValue(object, key) == IF key \in DOMAIN object THEN object[key] ELSE ""
UnmarshalEvent(object) ==
    Event(FieldValue(object, "type"), FieldValue(object, "status"),
          FieldValue(object, "level"), FieldValue(object, "text"),
          FieldValue(object, "step"), FieldValue(object, "number"),
          FieldValue(object, "name"), FieldValue(object, "percent"),
          FieldValue(object, "source"))

\* json.Marshal(event) printed on stdout: the event itself, field by field.
EventDump(event) ==
    [ch |-> "json", type |-> event.Type, level |-> event.Level,
     msg |-> <<"event", event.Text, event.Number, event.Step, event.Name,
               event.Percent, event.Status, event.Source>>,
     printed |-> TRUE,
     line |-> MarshalEvent(event)]

\* Mutant of handleWebSocketEvent: an event seen before is not reported again.
handleWebSocketEvent_dedup(event) ==
    IF \E i \in 1..Len(handled) : handled[i].ev = event
    THEN <<>>
    ELSE IF config.JSONOutput
    THEN <<EventDump(event)>>
    ELSE CASE event.Type = "status" -> handleStatusEvent(event)
           [] event.Type = "step" -> handleStepEvent(event)
           [] event.Type = "message" -> handleMessageEvent(event)
           [] event.Type = "info" -> handleInfoEvent(event)
           [] event.Type = "source" -> handleSourceEvent(event)
           [] OTHER -> handleUnknownEvent(event)

\* The records handleWebSocketEvent writes for one event.
handleWebSocketEvent(event) ==
    IF config.JSONOutput
    THEN <<EventDump(event)>>
    ELSE CASE event.Type = "status" -> handleStatusEvent(event)
           [] event.Type = "step" -> handleStepEvent(event)
           [] event.Type = "message" -> handleMessageEvent(event)
           [] event.Type = "info" -> handleInfoEvent(event)
           [] event.Type = "source" -> handleSourceEvent(event)
           [] OTHER -> handleUnknownEvent(event)

(***************************************************************************)
(* Frames on the WebSocket                                                 *)
(***************************************************************************)

\* websocket.CloseNormalClosure, CloseGoingAway, CloseAbnormalClosure
CloseNormalClosure == 1000
CloseGoingAway == 1001
CloseAbnormalClosure == 1006

Frame(kind, ev, code) == [kind |-> kind, ev |-> ev, code |-> code]
NoEvent == Event("", "", "", "", "", "", "", "", "")

\* Events the peer sends during a run.
RunEvents ==
    {Event("status", "START", "", "", "", "", "", "", ""),
     Event("info", "", "", "booting", "", "", "", "", "")}

\* A frame is a JSON event, a message that does not decode, or a close.
Frames ==
    {Frame("event", e, 0) : e \in RunEvents}
    \cup {Frame("garbage", NoEvent, 0)}
    \cup {Frame("close", NoEvent, c) : c \in {CloseNormalClosure, CloseAbnormalClosure}}

\* Mutant of IsUnexpectedCloseError: no close code is expected.
IsUnexpectedCloseError_noneExpected(frame) == frame.kind = "close"

\* websocket.IsUnexpectedCloseError(err, CloseGoingAway, CloseAbnormalClosure)
IsUnexpectedCloseError(frame) ==
    frame.kind = "close" /\ frame.code \notin {CloseGoingAway, CloseAbnormalClosure}

(***************************************************************************)
(* Initial states                                                          *)
(***************************************************************************)

Configs ==
    [Filename : {"", "fw.swu"}, Timeout : Timeouts, Verbose : BOOLEAN,
     JSONOutput : BOOLEAN, TLS : BOOLEAN]

\* file: what os.Stat / os.Open find at config.Filename; certs: whether
\* createTLSConfig can load what the flags name; upload: what the server
\* does with POST /upload; deadline: whether ctx carries the deadline
\* config.Timeout, as the one main builds does; entry: main, or a caller of
\* Update itself, who passes a context it may cancel.
Envs ==
    [file : {"ok", "missing", "unreadable"}, certs : {"ok", "bad"},
     upload : Responses, deadline : BOOLEAN, entry : {"main", "Update"}]

\* Settings no step ever reads are fixed, so that each situation is one state.
Relevant(c, e) ==
    /\ c.Filename = "" => e.file = "missing"
    /\ ~c.TLS => e.certs = "ok"
    /\ e.deadline <=> e.entry = "main"
    /\ (c.Filename = "" \/ e.file # "ok" \/ e.certs = "bad")
          => e.upload = Resp("status", StatusOK)

NoPrev == [result |-> Pending, uploadErr |-> Pending, cancelled |-> FALSE]

Fresh ==
    /\ pc = IF env.entry = "main" THEN "main" ELSE "connect"
    /\ now = 0
    /\ cancelled = FALSE
    /\ wsCancelled = FALSE
    /\ wsConn = "nil"
    /\ lpc = "none"
    /\ inbox = <<>>
    /\ sent = 0
    /\ sink = <<>>
    /\ net = <<>>
    /\ calls = <<>>
    /\ connErr = Pending
    /\ uploadErr = Pending
    /\ restartErr = Pending
    /\ result = Pending
    /\ exitCode = -1
    /\ arrived = <<>>
    /\ handled = <<>>
    /\ tlsConfig = NotBuilt
    /\ written = <<>>

Init ==
    /\ config \in Configs
    /\ restart \in BOOLEAN
    /\ env \in Envs
    /\ Relevant(config, env)
    /\ Fresh
    /\ runNo = 1
    /\ prev = NoPrev

\* Update has returned to its caller.
Returned == pc \in {"returned", "exited"}

\* The process is gone: no goroutine runs any more.
Exited == pc = "exited"

\* createTLSConfig returns an error.
TLSConfigFails == config.TLS /\ env.certs = "bad"

\* Mutant of OpenFails: only an empty file name is rejected.
OpenFails_emptyNameOnly == config.Filename = ""

\* Mutant of OpenFails: os.Open never fails.
OpenFails_never == FALSE

\* os.Open(c.config.Filename) returns an error.
OpenFails == config.Filename = "" \/ env.file # "ok"

(***************************************************************************)
(* main, up to the call of Update                                          *)
(***************************************************************************)

Main ==
    /\ pc = "main"
    /\ IF config.Filename = ""
       THEN /\ sink' = Append(sink, StdLog(<<"Error: firmware file (-file) is required">>))
            /\ exitCode' = 1
            /\ pc' = "exited"
       ELSE IF env.file = "missing"
       THEN /\ sink' = Append(sink, StdLog(<<"Error: firmware file '%s' does not exist">>))
            /\ exitCode' = 1
            /\ pc' = "exited"
       ELSE /\ sink' = Append(sink, logMessage("connection", "INFO",
                                  <<"Connecting to swupdate device at %s:%d">>))
            /\ exitCode' = exitCode
            /\ pc' = "connect"
    /\ UNCHANGED <<written, tlsConfig, config, restart, env, now, cancelled, wsCancelled, wsConn, lpc,
                   inbox, sent, net, calls, connErr, uploadErr, restartErr,
                   result, runNo, prev, arrived, handled>>

(***************************************************************************)
(* Update: connectWebSocket                                                *)
(***************************************************************************)

\* What the WebSocket endpoint does with the handshake.
DialOutcomes == {"ok", "refused", "hang"}

\* The error connectWebSocket returns.  The TLS configuration is built before
\* the dial; DialContext gives up at once on a context that is already done.
ConnectError(outcome) ==
    IF TLSConfigFails THEN Err("ws", "tls", 0)
    ELSE IF WsCtxDone THEN Err("ws", "ctx", 0)
    ELSE CASE outcome = "ok" -> NoErr
           [] outcome = "refused" -> Err("ws", "refused", 0)
           [] outcome = "hang" -> Err("ws", "timeout", 0)

\* Mutant of ConnectFailedLog: the connect error is dropped without a word.
ConnectFailedLog_silent == <<>>

\* Update's handling of connectWebSocket's error: two lines on the standard
\* logger, nothing returned.
ConnectFailedLog ==
    <<StdLog(WarnConnect), StdLog(<<"Proceeding without progress monitoring...">>)>>

\* c.connectWebSocket(wsCtx) with the endpoint behaving as `outcome`: what
\* it returns and what it does to the wire, the clock and c.wsConn.
connectWebSocket(outcome) ==
    LET early == TLSConfigFails \/ WsCtxDone
        err == ConnectError(outcome)
    IN  /\ early => outcome = "refused"
        /\ connErr' = err
        /\ net' = IF early THEN net ELSE Append(net, "GET /ws")
        /\ now' = IF ~early /\ outcome = "hang"
                  THEN EndOfWait(now + config.Timeout) ELSE now
        /\ wsConn' = IF err = NoErr THEN "open" ELSE wsConn

\* Update, lines 423-428: the dial, then the warning or the go statement.
Connect ==
    /\ pc = "connect"
    /\ \E outcome \in DialOutcomes :
         /\ connectWebSocket(outcome)
         /\ lpc' = IF connErr' = NoErr THEN "select" ELSE lpc
         /\ sink' = sink \o VerboseLog(<<"Connecting to WebSocket: %s">>)
                         \o (IF connErr' = NoErr THEN <<>> ELSE ConnectFailedLog)
    /\ calls' = Append(calls, "connectWebSocket")
    /\ pc' = "upload"
    /\ UNCHANGED <<written, tlsConfig, config, restart, env, cancelled, wsCancelled, inbox, sent,
                   uploadErr, restartErr, result, exitCode, runNo, prev, arrived, handled>>

(***************************************************************************)
(* Update: uploadFirmware                                                  *)
(***************************************************************************)

\* Mutant of StatusAccepted: only server errors count as failures.
StatusAccepted_lax(code) == code < 500

\* resp.StatusCode != http.StatusOK is the failure test of uploadFirmware and
\* of restartDevice.
StatusAccepted(code) == code = StatusOK

\* Mutant of UploadFailed: the error is logged and the run goes on.
UploadFailed_goesOn(e) ==
    /\ uploadErr' = e
    /\ pc' = "sleep"
    /\ UNCHANGED <<result, wsCancelled>>

\* Mutant of UploadFailed: a failed upload is tried again.
UploadFailed_retry(e) ==
    /\ uploadErr' = e
    /\ pc' = "upload"
    /\ UNCHANGED <<result, wsCancelled>>

\* uploadFirmware returned e: Update returns it as it is, and the deferred
\* wsCancel runs.
UploadFailed(e) ==
    /\ uploadErr' = e
    /\ result' = e
    /\ wsCancelled' = TRUE
    /\ pc' = "returned"

\* Mutant of UploadStartRecord: the start line is logged as a status line.
UploadStartRecord_asStatus ==
    logMessage("status", "INFO", <<"Uploading firmware: %s (%.2f MB)">>)

UploadStartRecord ==
    logMessage("upload", "INFO", <<"Uploading firmware: %s (%.2f MB)">>)

\* uploadFirmware from os.Open to the moment client.Do has sent the request.
UploadOpen ==
    /\ pc = "upload"
    /\ calls' = Append(calls, "uploadFirmware")
    /\ IF OpenFails
       THEN /\ UploadFailed(Err("upload", "open", 0))
            /\ UNCHANGED <<sink, net>>
       ELSE IF TLSConfigFails
       THEN /\ UploadFailed(Err("upload", "tls", 0))
            /\ sink' = Append(sink, UploadStartRecord)
            /\ UNCHANGED net
       ELSE IF CtxDone
       THEN /\ UploadFailed(Err("upload", "ctx", 0))
            /\ sink' = Append(sink, UploadStartRecord)
                          \o VerboseLog(<<"Uploading to: %s">>)
            /\ UNCHANGED net
       ELSE /\ sink' = Append(sink, UploadStartRecord)
                          \o VerboseLog(<<"Uploading to: %s">>)
            /\ net' = Append(net, "POST /upload")
            /\ pc' = "uploading"
            /\ UNCHANGED <<uploadErr, result, wsCancelled>>
    /\ UNCHANGED <<written, tlsConfig, config, restart, env, now, cancelled, wsConn, lpc, inbox, sent,
                   connErr, restartErr, exitCode, runNo, prev, arrived, handled>>

UploadSuccessRecord == logMessage("upload", "INFO", <<"Firmware uploaded successfully">>)

\* client.Do returns: with the response, or with an error when the request
\* was refused, timed out, or its context was done while it was in flight.
UploadFinish ==
    /\ pc = "uploading"
    /\ IF CtxDone
       THEN /\ UploadFailed(Err("upload", "ctx", 0))
            /\ UNCHANGED <<sink, now>>
       ELSE CASE env.upload.kind = "status" ->
                   /\ IF StatusAccepted(env.upload.code)
                      THEN /\ sink' = Append(sink, UploadSuccessRecord)
                           /\ uploadErr' = NoErr
                           /\ pc' = "sleep"
                           /\ UNCHANGED <<result, wsCancelled>>
                      ELSE /\ UploadFailed(Err("upload", "status", env.upload.code))
                           /\ UNCHANGED sink
                   /\ UNCHANGED now
              [] env.upload.kind = "neterr" ->
                   /\ UploadFailed(Err("upload", "neterr", 0))
                   /\ UNCHANGED <<sink, now>>
              [] env.upload.kind = "hang" ->
                   /\ UploadFailed(Err("upload", "timeout", 0))
                   /\ now' = EndOfWait(now + config.Timeout)
                   /\ UNCHANGED sink
    /\ UNCHANGED <<written, tlsConfig, config, restart, env, cancelled, wsConn, lpc, inbox, sent, net,
                   calls, connErr, restartErr, exitCode, runNo, prev, arrived, handled>>

(***************************************************************************)
(* Update: settling delay, restartDevice, return                           *)
(***************************************************************************)

\* return nil, with the deferred wsCancel.
ReturnNil ==
    /\ result' = NoErr
    /\ wsCancelled' = TRUE
    /\ pc' = "returned"

\* Mutant of Sleep: no settling delay, the restart follows the upload directly.
Sleep_noDelay ==
    /\ pc = "sleep"
    /\ IF restart
       THEN /\ pc' = "restart"
            /\ UNCHANGED <<result, wsCancelled>>
       ELSE ReturnNil
    /\ UNCHANGED <<written, tlsConfig, config, restart, env, now, calls, cancelled, wsConn, lpc, inbox,
                   sent, sink, net, connErr, uploadErr, restartErr, exitCode,
                   runNo, prev, arrived, handled>>

\* Mutant of Sleep: the restart flag is not consulted.
Sleep_alwaysRestart ==
    /\ pc = "sleep"
    /\ now' = now + SettleDelay
    /\ calls' = Append(calls, "Sleep")
    /\ pc' = "restart"
    /\ UNCHANGED <<result, wsCancelled>>
    /\ UNCHANGED <<written, tlsConfig, config, restart, env, cancelled, wsConn, lpc, inbox, sent, sink,
                   net, connErr, uploadErr, restartErr, exitCode, runNo, prev, arrived, handled>>

\* Mutant of Sleep: after the delay Update itself closes the connection.
Sleep_closesConn ==
    /\ pc = "sleep"
    /\ now' = now + SettleDelay
    /\ calls' = Append(calls, "Sleep")
    /\ wsConn' = IF wsConn = "open" THEN "closed" ELSE wsConn
    /\ IF restart
       THEN /\ pc' = "restart"
            /\ UNCHANGED <<result, wsCancelled>>
       ELSE ReturnNil
    /\ UNCHANGED <<written, tlsConfig, config, restart, env, cancelled, lpc, inbox, sent, sink,
                   net, connErr, uploadErr, restartErr, exitCode, runNo, prev, arrived, handled>>

\* Mutant of Sleep: the delay waits on ctx.Done() as well, and a context
\* that is done ends it at once with the context's error.
Sleep_cancellable ==
    /\ pc = "sleep"
    /\ calls' = Append(calls, "Sleep")
    /\ IF CtxDone
       THEN /\ now' = now
            /\ result' = Err("sleep", "ctx", 0)
            /\ wsCancelled' = TRUE
            /\ pc' = "returned"
       ELSE /\ now' = now + SettleDelay
            /\ IF restart
               THEN /\ pc' = "restart"
                    /\ UNCHANGED <<result, wsCancelled>>
               ELSE ReturnNil
    /\ UNCHANGED <<written, tlsConfig, config, restart, env, cancelled, wsConn, lpc, inbox,
                   sent, sink, net, connErr, uploadErr, restartErr, exitCode, runNo,
                   prev, arrived, handled>>

\* time.Sleep(2 * time.Second), then the test of the restart flag.
Sleep ==
    /\ pc = "sleep"
    /\ now' = now + SettleDelay
    /\ calls' = Append(calls, "Sleep")
    /\ IF restart
       THEN /\ pc' = "restart"
            /\ UNCHANGED <<result, wsCancelled>>
       ELSE ReturnNil
    /\ UNCHANGED <<written, tlsConfig, config, restart, env, cancelled, wsConn, lpc, inbox, sent, sink,
                   net, connErr, uploadErr, restartErr, exitCode, runNo, prev, arrived, handled>>

\* Mutant of RestartFailed: the restart error is returned to the caller.
RestartFailed_fatal(e, before) ==
    /\ restartErr' = e
    /\ sink' = sink \o before
    /\ result' = e
    /\ wsCancelled' = TRUE
    /\ pc' = "returned"

\* restartDevice returned e, after writing the lines `before`: Update logs
\* the warning and returns nil.
RestartFailed(e, before) ==
    /\ restartErr' = e
    /\ sink' = (sink \o before) \o <<StdLog(WarnRestart)>>
    /\ ReturnNil

\* restartDevice up to the moment client.Do has sent the request.
RestartStart ==
    /\ pc = "restart"
    /\ calls' = Append(calls, "restartDevice")
    /\ IF TLSConfigFails
       THEN /\ RestartFailed(Err("restart", "tls", 0), <<>>)
            /\ UNCHANGED net
       ELSE IF CtxDone
       THEN /\ RestartFailed(Err("restart", "ctx", 0),
                             VerboseLog(<<"Sending restart request to: %s">>))
            /\ UNCHANGED net
       ELSE /\ sink' = sink \o VerboseLog(<<"Sending restart request to: %s">>)
            /\ net' = Append(net, "POST /restart")
            /\ pc' = "restarting"
            /\ UNCHANGED <<restartErr, result, wsCancelled>>
    /\ UNCHANGED <<written, tlsConfig, config, restart, env, now, cancelled, wsConn, lpc, inbox, sent,
                   connErr, uploadErr, exitCode, runNo, prev, arrived, handled>>

\* client.Do of restartDevice returns.
RestartFinish ==
    /\ pc = "restarting"
    /\ IF CtxDone
       THEN /\ RestartFailed(Err("restart", "ctx", 0), <<>>)
            /\ UNCHANGED now
       ELSE \E r \in Responses :
              CASE r.kind = "status" ->
                     /\ IF StatusAccepted(r.code)
                        THEN /\ sink' = Append(sink, logMessage("restart", "INFO",
                                                   <<"Device restart initiated">>))
                             /\ restartErr' = NoErr
                             /\ ReturnNil
                        ELSE RestartFailed(Err("restart", "status", r.code), <<>>)
                     /\ UNCHANGED now
                [] r.kind = "neterr" ->
                     /\ RestartFailed(Err("restart", "neterr", 0), <<>>)
                     /\ UNCHANGED now
                [] r.kind = "hang" ->
                     /\ RestartFailed(Err("restart", "timeout", 0), <<>>)
                     /\ now' = EndOfWait(now + config.Timeout)
    /\ UNCHANGED <<written, tlsConfig, config, restart, env, cancelled, wsConn, lpc, inbox, sent, net,
                   calls, connErr, uploadErr, exitCode, runNo, prev, arrived, handled>>

(***************************************************************************)
(* main, after Update                                                      *)
(***************************************************************************)

\* Mutant of MainFinish: the error is printed but the exit status is 0.
MainFinish_exitZero ==
    /\ pc = "returned"
    /\ env.entry = "main"
    /\ IF result # NoErr
       THEN sink' = Append(sink, StdLog(<<"Update failed: %v">>))
       ELSE sink' = Append(sink, logMessage("completion", "INFO",
                                  <<"Update process completed">>))
    /\ exitCode' = 0
    /\ pc' = "exited"
    /\ UNCHANGED <<written, tlsConfig, config, restart, env, now, cancelled, wsCancelled,
                   wsConn, lpc, inbox, sent, net, calls, connErr, uploadErr,
                   restartErr, result, runNo, prev, arrived, handled>>

\* Update has returned to main: os.Exit(1) after the error line, or the
\* completion record and the end of main.
MainFinish ==
    /\ pc = "returned"
    /\ env.entry = "main"
    /\ IF result # NoErr
       THEN /\ sink' = Append(sink, StdLog(<<"Update failed: %v">>))
            /\ exitCode' = 1
       ELSE /\ sink' = Append(sink, logMessage("completion", "INFO",
                                  <<"Update process completed">>))
            /\ exitCode' = 0
    /\ pc' = "exited"
    /\ UNCHANGED <<written, tlsConfig, config, restart, env, now, cancelled, wsCancelled, wsConn, lpc,
                   inbox, sent, net, calls, connErr, uploadErr, restartErr,
                   result, runNo, prev, arrived, handled>>

\* A caller of Update other than main cancels the context it passed.
CallerCancel ==
    /\ env.entry = "Update"
    /\ ~cancelled
    /\ cancelled' = TRUE
    /\ UNCHANGED <<written, tlsConfig, config, restart, env, pc, now, wsCancelled, wsConn, lpc, inbox,
                   sent, sink, net, calls, connErr, uploadErr, restartErr, result,
                   exitCode, runNo, prev, arrived, handled>>

(***************************************************************************)
(* listenWebSocket and the peer                                            *)
(***************************************************************************)

\* The select of the loop: ctx.Done() is tested only here, between reads.
ListenerSelect ==
    /\ lpc = "select"
    /\ ~Exited
    /\ IF WsCtxDone
       THEN /\ lpc' = "done"
            /\ wsConn' = "closed"
       ELSE /\ lpc' = "read"
            /\ UNCHANGED wsConn
    /\ UNCHANGED <<written, tlsConfig, config, restart, env, pc, now, cancelled, wsCancelled, inbox,
                   sent, sink, net, calls, connErr, uploadErr, restartErr, result,
                   exitCode, runNo, prev, arrived, handled>>

\* Mutant of ReadJSON: the newest message is taken first.
ReadJSON_newest(queue) ==
    [frame |-> queue[Len(queue)], rest |-> SubSeq(queue, 1, Len(queue) - 1)]

\* wsConn.ReadJSON on a connection with messages waiting: the oldest message
\* is decoded and removed.
ReadJSON(queue) == [frame |-> Head(queue), rest |-> Tail(queue)]

\* wsConn.ReadJSON returns: it blocks until a frame is there; no read
\* deadline is set and the context is not consulted.
ListenerRead ==
    /\ lpc = "read"
    /\ ~Exited
    /\ inbox # <<>>
    /\ LET frame == ReadJSON(inbox).frame
       IN  /\ inbox' = ReadJSON(inbox).rest
           /\ IF frame.kind = "event"
              THEN /\ sink' = sink \o handleWebSocketEvent(frame.ev)
                   /\ handled' = Append(handled,
                                   [ev |-> frame.ev,
                                    out |-> handleWebSocketEvent(frame.ev),
                                    at |-> Len(sink)])
                   /\ lpc' = "select"
                   /\ UNCHANGED wsConn
              ELSE /\ sink' = sink \o (IF IsUnexpectedCloseError(frame)
                                       THEN <<StdLog(<<"WebSocket error: %v">>)>>
                                       ELSE <<>>)
                   /\ lpc' = "done"
                   /\ wsConn' = "closed"
                   /\ UNCHANGED handled
    /\ UNCHANGED <<written, tlsConfig, config, restart, env, pc, now, cancelled, wsCancelled, sent,
                   net, calls, connErr, uploadErr, restartErr, result, exitCode,
                   runNo, prev, arrived>>

\* The device sends a frame; a close is the last frame of a connection.
PeerSend ==
    /\ wsConn = "open"
    /\ ~Exited
    /\ sent < MaxEvents
    /\ \A i \in 1..Len(arrived) : arrived[i].kind # "close"
    /\ \E frame \in Frames :
         /\ inbox' = Append(inbox, frame)
         /\ arrived' = Append(arrived, frame)
    /\ sent' = sent + 1
    /\ UNCHANGED <<written, tlsConfig, config, restart, env, pc, now, cancelled, wsCancelled, wsConn,
                   lpc, sink, net, calls, connErr, uploadErr, restartErr, result,
                   exitCode, runNo, prev, handled>>

(***************************************************************************)
(* Specifications                                                          *)
(***************************************************************************)

Next ==
    \/ Main
    \/ Connect
    \/ UploadOpen
    \/ UploadFinish
    \/ Sleep
    \/ RestartStart
    \/ RestartFinish
    \/ MainFinish
    \/ CallerCancel
    \/ ListenerSelect
    \/ ListenerRead
    \/ PeerSend

Spec == Init /\ [][Next]_vars

\* The run is over for its caller: main has exited, or Update has returned
\* to the caller that invoked it.
Finished ==
    \/ env.entry = "main" /\ Exited
    \/ env.entry = "Update" /\ pc = "returned"

\* The program is invoked a second time with the same configuration, against
\* the same file system and the same upload server; what the progress
\* channel does is free again.  The first outcome is kept for comparison.
Rerun ==
    /\ runNo = 1
    /\ Finished
    /\ runNo' = 2
    /\ prev' = [result |-> result, uploadErr |-> uploadErr, cancelled |-> cancelled]
    /\ pc' = IF env.entry = "main" THEN "main" ELSE "connect"
    /\ now' = 0
    /\ cancelled' = FALSE
    /\ wsCancelled' = FALSE
    /\ wsConn' = "nil"
    /\ lpc' = "none"
    /\ inbox' = <<>>
    /\ sent' = 0
    /\ sink' = <<>>
    /\ net' = <<>>
    /\ calls' = <<>>
    /\ connErr' = Pending
    /\ uploadErr' = Pending
    /\ restartErr' = Pending
    /\ result' = Pending
    /\ exitCode' = -1
    /\ arrived' = <<>>
    /\ handled' = <<>>
    /\ UNCHANGED <<written, tlsConfig, config, restart, env>>

PairInit == Init /\ ~config.Verbose /\ ~config.JSONOutput

PairNext == Next \/ Rerun

PairSpec == PairInit /\ [][PairNext]_vars

\* The Go scheduler runs every runnable goroutine, and every call of the
\* foreground path returns (each wait is bounded by a timeout).  Nothing
\* obliges the peer to send or the caller to cancel.
Foreground ==
    \/ Main
    \/ Connect
    \/ UploadOpen
    \/ UploadFinish
    \/ Sleep
    \/ RestartStart
    \/ RestartFinish
    \/ MainFinish

Listener == ListenerSelect \/ ListenerRead

LiveInit == Init /\ ~config.Verbose /\ ~config.JSONOutput /\ ~config.TLS

FairSpec ==
    LiveInit /\ [][Next]_vars /\ WF_vars(Foreground) /\ WF_vars(Listener)

(***************************************************************************)
(* The listener on the whole event vocabulary                              *)
(***************************************************************************)

\* Values of the fields of an event: every kind of the switch, a kind it
\* does not know and a missing one; every status of the table, one outside
\* it and a missing one; each optional field present or missing.
EventTypes == {"status", "step", "message", "info", "source", "custom", ""}
EventStatuses == {"START", "RUN", "SUCCESS", "FAILURE", "DONE", "IDLE", "PAUSED", ""}
EventLevels == {"ERROR", "WARN", "INFO", "DEBUG", ""}

ClassifyEvents ==
    {Event(t, st, lv, tx, sp, nb, nm, pr, src) :
        t \in EventTypes, st \in EventStatuses, lv \in EventLevels,
        tx \in {"", "text"}, sp \in {"", "2"}, nb \in {"", "5"},
        nm \in {"", "kernel"}, pr \in {"", "50"}, src \in {"", "usb"}}

\* The device sends one event at a time to a listener that waits for it:
\* first any event of the vocabulary, then events of a run.
StreamSend ==
    /\ wsConn = "open"
    /\ lpc = "read"
    /\ inbox = <<>>
    /\ sent < MaxEvents
    /\ \E e \in IF sent = 0 THEN ClassifyEvents ELSE RunEvents :
         /\ inbox' = Append(inbox, Frame("event", e, 0))
         /\ arrived' = Append(arrived, Frame("event", e, 0))
    /\ sent' = sent + 1
    /\ UNCHANGED <<written, tlsConfig, config, restart, env, pc, now, cancelled, wsCancelled, wsConn,
                   lpc, sink, net, calls, connErr, uploadErr, restartErr, result,
                   exitCode, runNo, prev, handled>>

\* A client whose Update is called directly, up to the start of the upload.
ClassifyInit ==
    /\ Init
    /\ env.entry = "Update"
    /\ env.file = "ok"
    /\ env.upload = Resp("status", StatusOK)
    /\ config.Filename = "fw.swu"
    /\ config.Timeout = 3
    /\ ~config.TLS
    /\ ~restart

ClassifyNext == Connect \/ ListenerSelect \/ ListenerRead \/ StreamSend

ClassifySpec == ClassifyInit /\ [][ClassifyNext]_vars

(***************************************************************************)
(* The transport configuration on its own                                  *)
(***************************************************************************)

\* A client with -tls and any combination of the certificate flags, before
\* any of its methods is called.
TLSConfigs ==
    [Filename : {"fw.swu"}, Timeout : {3}, Verbose : {FALSE},
     JSONOutput : {FALSE}, TLS : {TRUE}, InsecureTLS : BOOLEAN,
     CertFile : CAFiles, ClientCertFile : ClientCertFiles,
     ClientKeyFile : ClientKeyFiles]

TLSInit ==
    /\ config \in TLSConfigs
    /\ restart = FALSE
    /\ env = [file |-> "ok",
              certs |-> IF createTLSConfig(config).err = "nil" THEN "ok" ELSE "bad",
              upload |-> Resp("status", StatusOK), deadline |-> FALSE,
              entry |-> "Update"]
    /\ Fresh
    /\ runNo = 1
    /\ prev = NoPrev

\* c.createTLSConfig()
CreateTLSConfig ==
    /\ tlsConfig = NotBuilt
    /\ tlsConfig' = createTLSConfig(config)
    /\ UNCHANGED <<written, config, restart, env, pc, now, cancelled, wsCancelled, wsConn,
                   lpc, inbox, sent, sink, net, calls, connErr, uploadErr,
                   restartErr, result, exitCode, runNo, prev, arrived, handled>>

\* A second client, the same but for -insecure, to compare with the first.
OtherVerification ==
    /\ runNo = 1
    /\ tlsConfig # NotBuilt
    /\ runNo' = 2
    /\ prev' = tlsConfig
    /\ config' = [config EXCEPT !.InsecureTLS = ~config.InsecureTLS]
    /\ tlsConfig' = NotBuilt
    /\ UNCHANGED <<written, restart, env, pc, now, cancelled, wsCancelled, wsConn, lpc,
                   inbox, sent, sink, net, calls, connErr, uploadErr, restartErr,
                   result, exitCode, arrived, handled>>

TLSNext == CreateTLSConfig \/ OtherVerification

TLSSpec == TLSInit /\ [][TLSNext]_vars

(***************************************************************************)
(* connectWebSocket and listenWebSocket called one by one                  *)
(***************************************************************************)

\* A caller that uses the two methods itself, with a context that it may
\* cancel and that may carry a deadline.
DirectInit ==
    /\ config \in Configs
    /\ config.Filename = "fw.swu"
    /\ restart = FALSE
    /\ env \in Envs
    /\ env.entry = "Update"
    /\ env.file = "ok"
    /\ env.upload = Resp("status", StatusOK)
    /\ ~config.TLS => env.certs = "ok"
    /\ Fresh
    /\ runNo = 1
    /\ prev = NoPrev

\* The caller lets the deadline of its context pass before it calls.
CallerDelay ==
    /\ pc = "connect"
    /\ env.deadline
    /\ now < config.Timeout
    /\ now' = config.Timeout
    /\ UNCHANGED <<written, tlsConfig, config, restart, env, pc, cancelled, wsCancelled,
                   wsConn, lpc, inbox, sent, sink, net, calls, connErr, uploadErr,
                   restartErr, result, exitCode, runNo, prev, arrived, handled>>

\* c.connectWebSocket(ctx), called by itself.
ConnectDirect ==
    /\ pc = "connect"
    /\ \E outcome \in DialOutcomes : connectWebSocket(outcome)
    /\ sink' = sink \o VerboseLog(<<"Connecting to WebSocket: %s">>)
    /\ calls' = Append(calls, "connectWebSocket")
    /\ pc' = "connected"
    /\ UNCHANGED <<written, tlsConfig, config, restart, env, cancelled, wsCancelled, lpc,
                   inbox, sent, uploadErr, restartErr, result, exitCode, runNo,
                   prev, arrived, handled>>

\* Mutant of ListenDirect: the loop is entered without the test for nil.
ListenDirect_noNilCheck ==
    /\ pc = "connected"
    /\ lpc = "none"
    /\ lpc' = "select"
    /\ UNCHANGED <<written, tlsConfig, config, restart, env, pc, now, cancelled, wsCancelled,
                   wsConn, inbox, sent, sink, net, calls, connErr, uploadErr,
                   restartErr, result, exitCode, runNo, prev, arrived, handled>>

\* c.listenWebSocket(ctx), called by itself, lines 152-155: with no
\* connection stored it returns at once, otherwise it enters its loop.
ListenDirect ==
    /\ pc = "connected"
    /\ lpc = "none"
    /\ lpc' = IF wsConn = "nil" THEN "done" ELSE "select"
    /\ UNCHANGED <<written, tlsConfig, config, restart, env, pc, now, cancelled, wsCancelled,
                   wsConn, inbox, sent, sink, net, calls, connErr, uploadErr,
                   restartErr, result, exitCode, runNo, prev, arrived, handled>>

DirectNext ==
    \/ CallerDelay
    \/ CallerCancel
    \/ ConnectDirect
    \/ ListenDirect
    \/ ListenerSelect
    \/ ListenerRead
    \/ PeerSend

DirectSpec == DirectInit /\ [][DirectNext]_vars

(***************************************************************************)
(* The JSON output of an upload with the listener on the whole vocabulary  *)
(***************************************************************************)

\* A client with -json whose Update is called directly: the dial, the
\* upload up to its answer, and the listener.
JSONInit == ClassifyInit /\ config.JSONOutput

JSONNext ==
    \/ Connect
    \/ UploadOpen
    \/ UploadFinish
    \/ ListenerSelect
    \/ ListenerRead
    \/ StreamSend

JSONSpec == JSONInit /\ [][JSONNext]_vars

(***************************************************************************)
(* The two tasks at the terminal, one print call at a time                 *)
(***************************************************************************)

\* Mutant of PrintCalls: the prefix of the line is printed by one call and
\* the text by another.
PrintCalls_prefixThenText(r) == IF r.printed THEN <<<<"prefix">>, r.line>> ELSE <<>>

\* The print calls made for one record: logMessage, handleWebSocketEvent
\* and the standard logger pass the whole line to one fmt.Println,
\* fmt.Printf or log.Printf; a record the console switch drops is not
\* printed at all.
PrintCalls(r) == IF r.printed THEN <<r.line>> ELSE <<>>

\* What one print call writes: os.File takes its write lock for the whole
\* Write, so the text of one call reaches the terminal in one piece.
Piece(task, rec, part, of, text) ==
    [task |-> task, rec |-> rec, part |-> part, of |-> of, text |-> text]

\* The print calls of a task, for its records from the n-th on.
RECURSIVE PiecesOf(_, _, _)
PiecesOf(task, records, n) ==
    IF n > Len(records)
    THEN <<>>
    ELSE LET lines == PrintCalls(records[n])
         IN  [k \in 1..Len(lines) |-> Piece(task, n, k, Len(lines), lines[k])]
                \o PiecesOf(task, records, n + 1)

\* The records of Update and main from the go statement on, in a run that
\* uploads and restarts with success.
ForegroundRecords ==
    <<UploadStartRecord>> \o VerboseLog(<<"Uploading to: %s">>)
        \o <<UploadSuccessRecord>>
        \o VerboseLog(<<"Sending restart request to: %s">>)
        \o <<logMessage("restart", "INFO", <<"Device restart initiated">>),
             logMessage("completion", "INFO", <<"Update process completed">>)>>

\* The records of the listener: those of the events that arrive, in order.
RECURSIVE ListenerRecords(_)
ListenerRecords(frames) ==
    IF frames = <<>>
    THEN <<>>
    ELSE handleWebSocketEvent(Head(frames).ev) \o ListenerRecords(Tail(frames))

\* The pieces a task has written so far.
WrittenBy(task) == SelectSeq(written, LAMBDA p : p.task = task)

\* The go statement has run and the events of the run are on their way.
WriteInit ==
    /\ Init
    /\ env.entry = "main"
    /\ env.file = "ok"
    /\ env.upload = Resp("status", StatusOK)
    /\ config.Filename = "fw.swu"
    /\ config.Timeout = 3
    /\ ~config.TLS
    /\ restart

\* The peer sends the events of the run.
WriteArrive ==
    /\ written = <<>>
    /\ Len(arrived) < MaxEvents
    /\ \E e \in RunEvents : arrived' = Append(arrived, Frame("event", e, 0))
    /\ UNCHANGED <<written, tlsConfig, config, restart, env, pc, now, cancelled,
                   wsCancelled, wsConn, lpc, inbox, sent, sink, net, calls, connErr,
                   uploadErr, restartErr, result, exitCode, runNo, prev, handled>>

\* The next print call of the foreground task.
ForegroundPrint ==
    LET pieces == PiecesOf("foreground", ForegroundRecords, 1)
        next == Len(WrittenBy("foreground")) + 1
    IN  /\ next <= Len(pieces)
        /\ written' = Append(written, pieces[next])
        /\ UNCHANGED <<tlsConfig, config, restart, env, pc, now, cancelled,
                       wsCancelled, wsConn, lpc, inbox, sent, sink, net, calls,
                       connErr, uploadErr, restartErr, result, exitCode, runNo,
                       prev, arrived, handled>>

\* The next print call of the listener.
ListenerPrint ==
    LET pieces == PiecesOf("listener", ListenerRecords(arrived), 1)
        next == Len(WrittenBy("listener")) + 1
    IN  /\ next <= Len(pieces)
        /\ written' = Append(written, pieces[next])
        /\ UNCHANGED <<tlsConfig, config, restart, env, pc, now, cancelled,
                       wsCancelled, wsConn, lpc, inbox, sent, sink, net, calls,
                       connErr, uploadErr, restartErr, result, exitCode, runNo,
                       prev, arrived, handled>>

WriteNext == WriteArrive \/ ForegroundPrint \/ ListenerPrint

WriteSpec == WriteInit /\ [][WriteNext]_vars

(***************************************************************************)
(* A run of main on the console, with events of every severity             *)
(***************************************************************************)

\* Events that make records of each category and each level.
LevelEvents ==
    {Event("status", "START", "", "", "", "", "", "", ""),
     Event("status", "FAILURE", "", "", "", "", "", "", ""),
     Event("status", "IDLE", "", "", "", "", "", "", ""),
     Event("step", "", "", "", "2", "5", "kernel", "50", ""),
     Event("message", "", "ERROR", "text", "", "", "", "", ""),
     Event("message", "", "WARN", "text", "", "", "", "", ""),
     Event("message", "", "INFO", "text", "", "", "", "", ""),
     Event("message", "", "DEBUG", "text", "", "", "", "", ""),
     Event("info", "", "", "booting", "", "", "", "", ""),
     Event("source", "", "", "", "", "", "", "", "usb"),
     Event("custom", "", "", "", "", "", "", "", "")}

\* The device sends one event at a time to a listener that waits for it.
LevelSend ==
    /\ wsConn = "open"
    /\ lpc = "read"
    /\ inbox = <<>>
    /\ ~Exited
    /\ sent < MaxEvents
    /\ \E e \in LevelEvents :
         /\ inbox' = Append(inbox, Frame("event", e, 0))
         /\ arrived' = Append(arrived, Frame("event", e, 0))
    /\ sent' = sent + 1
    /\ UNCHANGED <<written, tlsConfig, config, restart, env, pc, now, cancelled,
                   wsCancelled, wsConn, lpc, sink, net, calls, connErr, uploadErr,
                   restartErr, result, exitCode, runNo, prev, handled>>

\* main with a readable file, a server that accepts the upload, and
\* console output; verbose and restart are free.
ConsoleInit ==
    /\ Init
    /\ ~config.JSONOutput
    /\ env.entry = "main"
    /\ env.file = "ok"
    /\ env.upload = Resp("status", StatusOK)
    /\ config.Filename = "fw.swu"
    /\ config.Timeout = 3
    /\ ~config.TLS

ConsoleNext ==
    \/ Main
    \/ Connect
    \/ UploadOpen
    \/ UploadFinish
    \/ Sleep
    \/ RestartStart
    \/ RestartFinish
    \/ MainFinish
    \/ ListenerSelect
    \/ ListenerRead
    \/ LevelSend

ConsoleSpec == ConsoleInit /\ [][ConsoleNext]_vars

(***************************************************************************)
(* Properties                                                              *)
(***************************************************************************)

\* Number of places of seq that hold x.
Count(seq, x) == Cardinality({i \in 1..Len(seq) : seq[i] = x})

\* x occurs in seq.
Has(seq, x) == \E i \in 1..Len(seq) : seq[i] = x

\* Update has been entered.
Entered == pc # "main" /\ (Exited => calls # <<>>)

\* The upload endpoint answered the POST with a status line.
UploadAnswered == uploadErr.kind \in {"nil", "status"}

Is2xx(code) == 200 <= code /\ code <= 299

\* A line the user reads as a warning: a WARN record of logMessage, or a
\* line of the standard logger that starts with "Warning:".
IsWarn(r) == r.level = "WARN" \/ (r.ch = "stderr" /\ r.msg \in {WarnConnect, WarnRestart})

Failed(e) == e # Pending /\ e # NoErr

\* C1: whenever the upload endpoint answers with a status in 200..299,
\* Update returns success, whatever the listener did (dial failed, listener
\* running, listener ended).
C1_Any2xxSucceeds ==
    (Returned /\ UploadAnswered /\ env.upload.kind = "status" /\ Is2xx(env.upload.code))
        => result = NoErr

\* C2: whenever the upload endpoint answers with a status outside 200..299,
\* Update returns a failure that carries that status code, whatever the
\* listener did.
C2_Non2xxFailsWithCode ==
    (Returned /\ UploadAnswered /\ env.upload.kind = "status" /\ ~Is2xx(env.upload.code))
        => /\ Failed(result)
           /\ result.kind = "status"
           /\ result.code = env.upload.code

\* C2 witness: a 404 answer reported while the listener is blocked on a read.
C2_Witness ==
    /\ Returned
    /\ result = Err("upload", "status", 404)
    /\ lpc = "read"

\* C3: once the shared scope is cancelled while the listener is blocked on a
\* read and nothing more arrives, the listener task terminates (the end of
\* the process counts as termination); and the listener's termination leaves
\* a completed upload's outcome as it was.
C3_CancelStopsBlockedListener ==
    /\ [](WsCtxDone /\ lpc = "read" /\ inbox = <<>>
            => <>(lpc = "done" \/ Exited \/ inbox # <<>>))
    /\ [][(lpc # "done" /\ lpc' = "done")
            => (uploadErr' = uploadErr /\ result' = result)]_vars

\* C4: when the artifact is missing, Update returns the file error and no
\* network operation is ever attempted in that run: no dial, no POST.
C4_MissingFileNoNetwork ==
    (Entered /\ (config.Filename = "" \/ env.file = "missing"))
        => /\ net = <<>>
           /\ Returned => result = Err("upload", "open", 0)

\* C4 as amended: when the artifact cannot be opened, Update returns the file
\* error without an upload POST or a restart POST; the one network operation
\* of the run is the WebSocket dial that precedes the upload, made at most
\* once.
C4_MissingFileNoPost ==
    (Entered /\ (config.Filename = "" \/ env.file # "ok"))
        => /\ ~Has(net, "POST /upload")
           /\ ~Has(net, "POST /restart")
           /\ Count(net, "GET /ws") <= 1
           /\ Returned => result = Err("upload", "open", 0)

\* C4 witness: the file error returned after the dial went out.
C4_Witness ==
    /\ Returned
    /\ env.file = "missing"
    /\ result = Err("upload", "open", 0)
    /\ net = <<"GET /ws">>

\* C5: after a successful upload with restart requested, a failed restart
\* (status other than success, or transport error) leaves Update's result a
\* success and is reported by exactly one warning about the restart.
C5_RestartFailureIsWarning ==
    (Returned /\ uploadErr = NoErr /\ restart /\ Failed(restartErr))
        => /\ result = NoErr
           /\ exitCode # 1
           /\ Count(sink, StdLog(WarnRestart)) = 1
           /\ IsWarn(StdLog(WarnRestart))

\* C5 witness: restart answered 500, Update returned nil.
C5_Witness ==
    /\ Returned
    /\ restart
    /\ restartErr = Err("restart", "status", 500)
    /\ result = NoErr

\* C6: a failure to open the progress channel (dial error, handshake
\* timeout, transport-config error) is reported by one warning, starts no
\* listener, is never what Update returns, and Update goes on to the upload.
C6_ConnectFailureNotFatal ==
    Failed(connErr)
        => /\ Count(sink, StdLog(WarnConnect)) = 1
           /\ IsWarn(StdLog(WarnConnect))
           /\ lpc = "none"
           /\ wsConn = "nil"
           /\ result.op # "ws"
           /\ pc = "upload" \/ Has(calls, "uploadFirmware")

\* C6 witness: the handshake timed out and the run still succeeded.
C6_Witness ==
    /\ connErr = Err("ws", "timeout", 0)
    /\ Returned
    /\ result = NoErr

\* C7: two runs that differ only in what the progress channel does (the
\* caller cancelling in neither) end with the same upload result and the
\* same value returned by Update.
C7_ChannelDoesNotInfluence ==
    (runNo = 2 /\ Finished /\ ~cancelled /\ ~prev.cancelled)
        => /\ uploadErr = prev.uploadErr
           /\ result = prev.result

\* C8: when the upload fails, Update returns exactly the upload's error,
\* has cancelled the child scope, and has neither slept nor called restart.
C8_UploadFailureReturnsAtOnce ==
    Failed(uploadErr)
        => /\ Returned
           /\ result = uploadErr
           /\ wsCancelled
           /\ ~Has(calls, "Sleep")
           /\ ~Has(calls, "restartDevice")
           /\ ~Has(net, "POST /restart")

\* C8 witness: restart was requested and the upload was answered 500.
C8_Witness ==
    /\ restart
    /\ uploadErr = Err("upload", "status", 500)
    /\ Returned

\* C9: a restart request is sent only when restart was requested and only
\* after the upload succeeded and its success record was written; at most
\* one is sent.
C9_RestartOnlyAfterSuccess ==
    /\ Count(net, "POST /restart") <= 1
    /\ Count(calls, "restartDevice") <= 1
    /\ (Has(net, "POST /restart") \/ Has(calls, "restartDevice"))
         => /\ restart
            /\ uploadErr = NoErr
            /\ Has(sink, UploadSuccessRecord)
            /\ Has(net, "POST /upload")

\* C9 witness: the restart request has gone out.
C9_Witness == Has(net, "POST /restart") /\ pc = "restarting"

\* C10: the child scope is cancelled on every return path of Update, and it
\* is done whenever the caller's scope is done: a listener that reaches its
\* select with the caller's scope done returns.
C10_ChildScopeCancelled ==
    /\ [](Returned /\ Entered => wsCancelled)
    /\ [](CtxDone => WsCtxDone)
    /\ [][(lpc = "select" /\ CtxDone /\ lpc' # lpc) => lpc' = "done"]_vars

\* C10 witness: Update returned after a failed restart, the child scope
\* cancelled, and the listener saw it.
C10_Witness ==
    /\ Returned
    /\ Failed(restartErr)
    /\ wsCancelled
    /\ lpc = "done"

\* The sub-operations of Update in the order of its body.
Phases == <<"connectWebSocket", "uploadFirmware", "Sleep", "restartDevice">>

\* How far the foreground task has come.
Rank(p) ==
    CASE p = "main" -> 0
      [] p = "connect" -> 1
      [] p = "upload" -> 2
      [] p = "uploading" -> 3
      [] p = "sleep" -> 4
      [] p = "restart" -> 5
      [] p = "restarting" -> 6
      [] p = "returned" -> 7
      [] p = "exited" -> 8

\* C11: Update goes through connect, upload, settling delay, restart in this
\* order and enters none twice: the upload starts only after the connect
\* attempt has returned, nothing follows a failed upload, the restart is
\* entered only after a successful upload and the settling delay, and the
\* task never goes back.
C11_PhaseOrder ==
    /\ [](/\ Len(calls) <= Len(Phases)
          /\ \A i \in 1..Len(calls) : calls[i] = Phases[i])
    /\ [](Has(calls, "uploadFirmware") => connErr # Pending)
    /\ [](Failed(uploadErr)
            => Returned /\ calls = <<"connectWebSocket", "uploadFirmware">>)
    /\ [](Has(calls, "Sleep") => uploadErr = NoErr)
    /\ [](Has(calls, "restartDevice")
            => restart /\ uploadErr = NoErr /\ Has(calls, "Sleep"))
    /\ [](Returned /\ Entered /\ uploadErr = NoErr /\ restart => calls = Phases)
    /\ [][Rank(pc') >= Rank(pc)]_vars

\* C11 witness: a run that went through all four phases and returned.
C11_Witness == Returned /\ calls = Phases /\ result = NoErr

\* A record logMessage wrote for the upload operation.
IsUploadRecord(r) == r.ch # "stderr" /\ r.type = "upload"
UploadRecords == SelectSeq(sink, IsUploadRecord)

\* C12: a successful upload hands exactly two records to logMessage, the
\* INFO start record and the INFO success record, in this order, for every
\* value of verbose and restart; the start record is written before the
\* request is sent, the success record only after the accepted response, and
\* a failed upload writes no success record.
C12_UploadTwoRecords ==
    /\ uploadErr = NoErr
         => /\ UploadRecords = <<UploadStartRecord, UploadSuccessRecord>>
            /\ \A i \in 1..Len(UploadRecords) : UploadRecords[i].level = "INFO"
    /\ Has(net, "POST /upload") => Has(sink, UploadStartRecord)
    /\ Has(sink, UploadSuccessRecord)
         => uploadErr = NoErr /\ env.upload = Resp("status", StatusOK)
    /\ Failed(uploadErr) => Len(UploadRecords) <= 1

\* C12 witness: the scenario of the specification (not verbose, no restart,
\* console output), upload answered 200 and Update returned.
C12_Witness ==
    /\ ~config.Verbose
    /\ ~config.JSONOutput
    /\ ~restart
    /\ Returned
    /\ result = NoErr
    /\ Len(UploadRecords) = 2

Classified == {handled[i] : i \in 1..Len(handled)}
OfKind(kind) == {h \in Classified : h.ev.Type = kind}
KnownKinds == {"status", "step", "message", "info", "source"}
OfUnknownKind == {h \in Classified : h.ev.Type \notin KnownKinds}

\* The classification gave no record; it gave exactly one; the one record is
\* a log record on the console; the one record is the event itself as JSON.
Suppressed(h) == h.out = <<>>
OneRecord(h) == Len(h.out) = 1
OneLogRecord(h, type, level) ==
    /\ OneRecord(h)
    /\ h.out[1].ch = "console"
    /\ h.out[1].type = type
    /\ h.out[1].level = level
    /\ h.out[1].printed
RawEvent(h) ==
    /\ OneRecord(h)
    /\ h.out[1].ch = "json"
    /\ h.out[1].msg = <<"event", h.ev.Text, h.ev.Number, h.ev.Step, h.ev.Name,
                        h.ev.Percent, h.ev.Status, h.ev.Source>>

\* The message of the one record is a fixed phrase; it carries value v.
FixedPhrase(h) == Len(h.out[1].msg) = 1
Echoes(h, v) == \E k \in 2..Len(h.out[1].msg) : h.out[1].msg[k] = v

IdleEvents == {h \in OfKind("status") : h.ev.Status = "IDLE"}

\* C14 as stated: a status event with value IDLE yields no record when
\* verbose is off and exactly one INFO record when verbose is on.
C14_IdleFollowsVerbose ==
    \A h \in IdleEvents :
        IF config.Verbose
        THEN OneRecord(h) /\ h.out[1].level = "INFO"
        ELSE Suppressed(h)

\* C14 amended: with JSON output off, a status event with value IDLE yields
\* no record when verbose is off and exactly one INFO record of category
\* status when verbose is on; with JSON output on, the event itself is
\* written as one JSON object, whatever verbose is.
C14_IdleFollowsVerboseOnConsole ==
    \A h \in IdleEvents :
        IF config.JSONOutput
        THEN RawEvent(h)
        ELSE IF config.Verbose
        THEN OneLogRecord(h, "status", "INFO")
        ELSE Suppressed(h)

C14_Witness ==
    /\ ~config.JSONOutput
    /\ ~config.Verbose
    /\ \E h \in IdleEvents : Suppressed(h) /\ h.ev.Level = "ERROR"

OtherStatusEvents == {h \in OfKind("status") : h.ev.Status # "IDLE"}
FixedStatuses == {"START", "RUN", "DONE", "SUCCESS", "FAILURE"}
StatusSeverity(h) == IF h.ev.Status = "FAILURE" THEN "ERROR" ELSE "INFO"

\* The message of a status record: for a status of the table a fixed phrase,
\* the same for every event with that status; otherwise the raw status.
StatusPhrase(h) ==
    IF h.ev.Status \in FixedStatuses
    THEN /\ FixedPhrase(h)
         /\ \A g \in OtherStatusEvents :
                g.ev.Status = h.ev.Status => g.out[1].msg = h.out[1].msg
    ELSE Echoes(h, h.ev.Status)

\* C15 as stated: every status event with a value other than IDLE yields
\* exactly one record of category status whatever verbose is: ERROR for
\* FAILURE and INFO for every other value, with a fixed message for START,
\* RUN, DONE, SUCCESS and FAILURE and the raw value echoed for the rest.
C15_StatusTable ==
    \A h \in OtherStatusEvents :
        /\ OneRecord(h)
        /\ h.out[1].type = "status"
        /\ h.out[1].level = StatusSeverity(h)
        /\ StatusPhrase(h)

\* C15 amended: with JSON output off, every status event with a value other
\* than IDLE yields exactly one record of category status whatever verbose
\* is, with the severity and message of the table; with JSON output on, the
\* event itself is written as one JSON object with the event's own level.
C15_StatusTableOnConsole ==
    \A h \in OtherStatusEvents :
        IF config.JSONOutput
        THEN RawEvent(h) /\ h.out[1].level = h.ev.Level
        ELSE /\ OneLogRecord(h, "status", StatusSeverity(h))
             /\ StatusPhrase(h)

C15_Witness ==
    /\ ~config.JSONOutput
    /\ ~config.Verbose
    /\ \E h \in OtherStatusEvents :
           h.ev.Status = "FAILURE" /\ h.ev.Level = "INFO" /\ OneRecord(h)
    /\ \E h \in OtherStatusEvents : h.ev.Status = "START" /\ OneRecord(h)

StepEvents == OfKind("step")
HasProgress(h) == h.ev.Percent # "" /\ h.ev.Name # ""
HasStep(h) == h.ev.Step # "" /\ h.ev.Number # ""

\* The record of a step event says which component is installed and how
\* far; it says which step of how many.
InstallingRecord(h) ==
    /\ OneRecord(h)
    /\ h.out[1].type = "progress"
    /\ h.out[1].level = "INFO"
    /\ h.out[1].msg = <<"Installing %s: %s%%", h.ev.Name, h.ev.Percent>>
StepOfRecord(h) ==
    /\ OneRecord(h)
    /\ h.out[1].type = "progress"
    /\ h.out[1].level = "INFO"
    /\ h.out[1].msg = <<"Step %s of %s", h.ev.Step, h.ev.Number>>

StepRule(h) ==
    IF HasProgress(h) THEN InstallingRecord(h)
    ELSE IF HasStep(h) THEN StepOfRecord(h)
    ELSE Suppressed(h)

\* C16 as stated: a step event with percent and name yields one INFO
\* progress record naming the component and the percentage, also when step
\* and step total are there; otherwise one with step and step total yields
\* one INFO record "step of total"; otherwise nothing; verbose plays no part.
C16_StepRule == \A h \in StepEvents : StepRule(h)

\* C16 amended: with JSON output off, the step rule above holds and its
\* record is printed whatever verbose is; with JSON output on, every step
\* event is written as one JSON object, also one with no field present.
C16_StepRuleOnConsole ==
    \A h \in StepEvents :
        IF config.JSONOutput
        THEN RawEvent(h)
        ELSE /\ StepRule(h)
             /\ \A k \in 1..Len(h.out) : h.out[k].ch = "console" /\ h.out[k].printed

C16_Witness ==
    /\ ~config.JSONOutput
    /\ ~config.Verbose
    /\ \E h \in StepEvents : HasProgress(h) /\ HasStep(h) /\ InstallingRecord(h)

MessageEvents == OfKind("message")
Urgent(h) == h.ev.Level \in {"ERROR", "WARN"}

\* C17 as stated: a message event of level ERROR or WARN yields exactly one
\* record, whatever verbose is and also with an empty text; one of any other
\* level, or of none, yields a record exactly if verbose is on and the text
\* is not empty.
C17_MessageRule ==
    \A h \in MessageEvents :
        IF Urgent(h)
        THEN OneRecord(h)
        ELSE /\ Len(h.out) <= 1
             /\ OneRecord(h) <=> (config.Verbose /\ h.ev.Text # "")

\* C17 amended: with JSON output off, the rule above holds, the record
\* being of category message with the event's text, of the event's level
\* for ERROR and WARN and INFO otherwise; with JSON output on, every
\* message event is written as one JSON object, whatever its level and text.
C17_MessageRuleOnConsole ==
    \A h \in MessageEvents :
        IF config.JSONOutput
        THEN RawEvent(h)
        ELSE IF Urgent(h)
        THEN OneLogRecord(h, "message", h.ev.Level) /\ h.out[1].msg = <<h.ev.Text>>
        ELSE IF config.Verbose /\ h.ev.Text # ""
        THEN OneLogRecord(h, "message", "INFO") /\ h.out[1].msg = <<h.ev.Text>>
        ELSE Suppressed(h)

C17_Witness ==
    /\ ~config.JSONOutput
    /\ ~config.Verbose
    /\ \E h \in MessageEvents : h.ev.Level = "WARN" /\ h.ev.Text = "" /\ OneRecord(h)

QuietKinds == OfKind("info") \cup OfKind("source") \cup OfUnknownKind

\* C18 as stated: with verbose off, an event of kind info, source or of a
\* kind not known never yields a record; with verbose on, an info event
\* yields one record exactly if its text is not empty, a source event always
\* yields one, and an event of a kind not known always yields one that
\* carries the kind as received.
C18_VerboseOnlyKinds ==
    /\ ~config.Verbose => \A h \in QuietKinds : Suppressed(h)
    /\ config.Verbose =>
         /\ \A h \in OfKind("info") :
                Len(h.out) <= 1 /\ (OneRecord(h) <=> h.ev.Text # "")
         /\ \A h \in OfKind("source") : OneRecord(h)
         /\ \A h \in OfUnknownKind : OneRecord(h) /\ Echoes(h, h.ev.Type)

\* C18 amended: with JSON output off, the rule above holds, the records
\* being INFO records of category info, source and unknown; with JSON output
\* on, every such event is written as one JSON object, whatever verbose is.
C18_VerboseOnlyKindsOnConsole ==
    IF config.JSONOutput
    THEN \A h \in QuietKinds : RawEvent(h) /\ h.out[1].type = h.ev.Type
    ELSE IF ~config.Verbose
    THEN \A h \in QuietKinds : Suppressed(h)
    ELSE /\ \A h \in OfKind("info") :
                IF h.ev.Text # ""
                THEN OneLogRecord(h, "info", "INFO") /\ h.out[1].msg = <<h.ev.Text>>
                ELSE Suppressed(h)
         /\ \A h \in OfKind("source") :
                OneLogRecord(h, "source", "INFO") /\ Echoes(h, h.ev.Source)
         /\ \A h \in OfUnknownKind :
                OneLogRecord(h, "unknown", "INFO") /\ Echoes(h, h.ev.Type)

C18_Witness ==
    /\ ~config.JSONOutput
    /\ config.Verbose
    /\ \E h \in OfKind("source") : h.ev.Source = "" /\ OneRecord(h)
    /\ \E h \in OfKind("info") : OneRecord(h)

\* C19: whatever the kind of an event (known, unknown or empty) and whichever
\* of its fields are missing, handleWebSocketEvent writes at most one record
\* and returns to the loop: after an event the listener stands at its select
\* with the connection open, it has classified every event it has read, and
\* it has not stopped.
C19_ClassifierTotal ==
    /\ [](\A h \in Classified : Len(h.out) <= 1)
    /\ [](Len(handled) + Len(inbox) = Len(arrived))
    /\ [](handled # <<>> => lpc \in {"select", "read"} /\ wsConn = "open")
    /\ [][Len(handled') > Len(handled) => lpc' = "select" /\ wsConn' = "open"]_vars

C19_Witness ==
    /\ Len(handled) = 2
    /\ handled[1].ev = Event("", "", "", "", "", "", "", "", "")
    /\ Suppressed(handled[1])
    /\ OneRecord(handled[2])

(***************************************************************************)
(* Order of the listener's records                                         *)
(***************************************************************************)

\* The frames the listener has taken from the connection so far, and the
\* events among them.
IsEventFrame(frame) == frame.kind = "event"
ReadSoFar == SubSeq(arrived, 1, Len(arrived) - Len(inbox))
EventsRead == SelectSeq(ReadSoFar, IsEventFrame)

\* C20: the listener takes the frames in the order of their arrival and has
\* classified each event it took before it takes the next frame: the events
\* classified are the events taken, each once and in that order; the
\* records of each stand together in the sink where the sink ended when the
\* event was taken, those of an earlier event before those of a later one.
C20_OneAtATimeInOrder ==
    /\ [](inbox = SubSeq(arrived, Len(arrived) - Len(inbox) + 1, Len(arrived)))
    /\ [](/\ Len(handled) = Len(EventsRead)
          /\ \A i \in 1..Len(handled) : handled[i].ev = EventsRead[i].ev)
    /\ [](\A i \in 1..Len(handled) :
            /\ handled[i].at + Len(handled[i].out) <= Len(sink)
            /\ SubSeq(sink, handled[i].at + 1, handled[i].at + Len(handled[i].out))
                 = handled[i].out)
    /\ [](\A i, j \in 1..Len(handled) :
            i < j => handled[i].at + Len(handled[i].out) <= handled[j].at)
    /\ [][Len(inbox') < Len(inbox) =>
            /\ Len(handled) = Len(EventsRead)
            /\ inbox' = Tail(inbox)
            /\ IsEventFrame(Head(inbox)) =>
                 /\ handled' = Append(handled, handled'[Len(handled')])
                 /\ handled'[Len(handled')].ev = Head(inbox).ev
                 /\ Len(sink') = Len(sink) + Len(handled'[Len(handled')].out)]_vars

C20_Witness ==
    /\ Len(handled) = 2
    /\ handled[1].ev # handled[2].ev
    /\ OneRecord(handled[1])
    /\ OneRecord(handled[2])
    /\ handled[1].at < handled[2].at
    /\ sink[handled[2].at + 1] = handled[2].out[1]
    /\ pc = "uploading"

(***************************************************************************)
(* End of the listener on a failed read                                    *)
(***************************************************************************)

\* The last frame the listener took was not an event: ReadJSON returned an
\* error.  The frame was one that does not decode, or the connection was
\* lost without a close frame (close code 1006).
FailedRead == ReadSoFar # <<>> /\ ~IsEventFrame(ReadSoFar[Len(ReadSoFar)])
FailedFrame == ReadSoFar[Len(ReadSoFar)]
DecodeErrorOrAbnormal(frame) ==
    \/ frame.kind = "garbage"
    \/ frame.kind = "close" /\ frame.code = CloseAbnormalClosure
WebSocketErrorLine == StdLog(<<"WebSocket error: %v">>)

\* C21: a read that fails with a decode error or an abnormal closure ends
\* the listener without a word: the failing read writes nothing, the
\* listener is done and its connection closed, it classifies nothing that
\* arrived after, no "WebSocket error" line is ever written, and Update's
\* result is that of the upload alone.
C21_FailedReadEndsListenerSilently ==
    /\ [](FailedRead => lpc = "done" /\ wsConn = "closed")
    /\ [](FailedRead /\ DecodeErrorOrAbnormal(FailedFrame)
            => ~Has(sink, WebSocketErrorLine))
    /\ [](FailedRead /\ Returned
            => result.op # "ws" /\ (result = NoErr <=> uploadErr = NoErr))
    /\ [][~FailedRead /\ FailedRead' /\ DecodeErrorOrAbnormal(FailedFrame')
            => sink' = sink /\ handled' = handled]_vars
    /\ [][FailedRead => /\ handled' = handled
                        /\ Len(inbox') >= Len(inbox)
                        /\ lpc' = lpc]_vars

C21_Witness ==
    /\ FailedRead
    /\ FailedFrame.kind = "garbage"
    /\ inbox # <<>>
    /\ IsEventFrame(inbox[1])
    /\ handled = <<>>
    /\ Returned
    /\ result = NoErr

(***************************************************************************)
(* Cancellation and the deadline                                           *)
(***************************************************************************)

\* The caller has cancelled, or the deadline the caller set has passed.
ScopeFired == cancelled \/ (env.deadline /\ now >= config.Timeout)
UploadInFlight == pc = "uploading"
UploadFailsNow == /\ Failed(uploadErr')
                  /\ result' = uploadErr'
                  /\ pc' = "returned"
                  /\ ~Has(calls', "Sleep")
                  /\ ~Has(net', "POST /restart")

\* C22: when the caller's scope fires while the upload request is in flight,
\* client.Do returns an error, uploadFirmware and Update return it, and
\* neither the settling delay nor the restart follows; when the scope has
\* fired before uploadFirmware is called, the upload fails.
C22_ScopeFiredAbortsUpload ==
    /\ [][UploadInFlight /\ ~UploadInFlight' /\ (ScopeFired \/ ScopeFired')
            => UploadFailsNow]_vars
    /\ [][pc = "upload" /\ pc' # "upload" /\ ScopeFired => UploadFailsNow]_vars
    /\ [](uploadErr.kind = "ctx" =>
            /\ Returned
            /\ result = uploadErr
            /\ ~Has(calls, "Sleep")
            /\ ~Has(calls, "restartDevice"))

C22_Witness ==
    /\ cancelled
    /\ Has(net, "POST /upload")
    /\ env.upload = Resp("status", StatusOK)
    /\ uploadErr = Err("upload", "ctx", 0)
    /\ result = uploadErr
    /\ restart
    /\ ~Has(net, "POST /restart")

\* The deadline main sets has passed.
DeadlinePassed == env.deadline /\ now >= config.Timeout

\* C23: the run of main lasts no longer than the one timeout: the clock of
\* the run never shows more than config.Timeout, and once the deadline has
\* passed Update calls no further sub-operation and starts no wait.
C23_DeadlineBoundsRun ==
    /\ [](env.deadline => now <= config.Timeout)
    /\ [][DeadlinePassed => calls' = calls]_vars

(***************************************************************************)
(* No retries                                                              *)
(***************************************************************************)

Requests == {"GET /ws", "POST /upload", "POST /restart"}

\* C24: in one run of Update each request goes on the wire at most once and
\* each sub-operation is called at most once; the listener is started at
\* most once, by the step that connects; and what a sub-operation returned
\* stays what it returned: nothing is tried a second time.
C24_NoRetries ==
    /\ [](\A q \in Requests : Count(net, q) <= 1)
    /\ [](\A i \in 1..Len(Phases) : Count(calls, Phases[i]) <= 1)
    /\ [][lpc # lpc' /\ lpc = "none" => calls = <<>> /\ connErr' = NoErr]_vars
    /\ [][lpc # "none" => lpc' # "none"]_vars
    /\ [][/\ connErr # Pending => connErr' = connErr
          /\ uploadErr # Pending => uploadErr' = uploadErr
          /\ restartErr # Pending => restartErr' = restartErr]_vars
    /\ [](Failed(connErr) => lpc = "none" /\ wsConn = "nil")

C24_Witness ==
    /\ Returned
    /\ connErr = Err("ws", "refused", 0)
    /\ uploadErr = NoErr
    /\ restartErr = Err("restart", "neterr", 0)
    /\ net = <<"GET /ws", "POST /upload", "POST /restart">>

(***************************************************************************)
(* The transport configuration                                             *)
(***************************************************************************)

Built == tlsConfig # NotBuilt
NoClientCert == config.ClientCertFile = ""
NoClientKey == config.ClientKeyFile = ""

\* C25: when exactly one of client certificate and client key is given,
\* createTLSConfig returns an error.
C25_PartialIdentityFails ==
    Built /\ (NoClientCert # NoClientKey) => tlsConfig.err # "nil"

\* C26: with neither client certificate nor client key, and a trust root
\* that loads or none, createTLSConfig succeeds with no client identity; and
\* of two clients that differ in -insecure only, both builders fail or both
\* succeed, with the same trust root and the same client identity, each
\* with its own verification flag.
C26_AnonymousAndSkipVerifyFrame ==
    /\ Built /\ NoClientCert /\ NoClientKey /\ config.CertFile \in {"", "ca.pem"}
          => tlsConfig.err = "nil" /\ tlsConfig.Certificates = <<>>
    /\ Built /\ tlsConfig.err = "nil"
          => tlsConfig.InsecureSkipVerify = config.InsecureTLS
    /\ Built /\ runNo = 2
          => /\ tlsConfig.err = prev.err
             /\ tlsConfig.RootCAs = prev.RootCAs
             /\ tlsConfig.Certificates = prev.Certificates
             /\ tlsConfig.err = "nil"
                  => prev.InsecureSkipVerify = ~tlsConfig.InsecureSkipVerify

C26_Witness ==
    /\ Built
    /\ runNo = 2
    /\ NoClientCert /\ NoClientKey
    /\ config.CertFile = "ca.pem"
    /\ tlsConfig = TLSResult("nil", TRUE, "ca.pem", <<>>)
    /\ prev = TLSResult("nil", FALSE, "ca.pem", <<>>)

(***************************************************************************)
(* Exit status                                                             *)
(***************************************************************************)

CompletionRecord == logMessage("completion", "INFO", <<"Update process completed">>)
PreflightFails == config.Filename = "" \/ env.file = "missing"

IsStdout(r) == r.ch # "stderr"
Stdout == SelectSeq(sink, IsStdout)
EventPositions == {handled[i].at + 1 : i \in 1..Len(handled)}
LogPositions == {i \in 1..Len(sink) : IsStdout(sink[i])} \ EventPositions

\* The line is a LogMessage object made from the arguments of logMessage.
IsLogObject(r) ==
    /\ DOMAIN r.line = {"type", "level", "message", "time"}
    /\ r.line["type"] = r.type
    /\ r.line["level"] = r.level
    /\ r.line["message"] = r.msg

\* C28: with JSON output on, everything written to stdout is one JSON
\* object: what logMessage writes has the fields type, level, message and
\* time, the first three being its arguments; and for every event the
\* listener handles, whatever its kind and whatever verbose is, exactly one
\* object is written, which has the key type and decodes to the event that
\* was received.
C28_JSONOutput ==
    config.JSONOutput =>
        /\ \A i \in 1..Len(sink) : IsStdout(sink[i]) => sink[i].ch = "json"
        /\ \A i \in LogPositions : IsLogObject(sink[i])
        /\ \A i \in 1..Len(handled) :
              /\ OneRecord(handled[i])
              /\ sink[handled[i].at + 1] = handled[i].out[1]
              /\ "type" \in DOMAIN handled[i].out[1].line
              /\ DOMAIN handled[i].out[1].line \subseteq EventKeys
              /\ UnmarshalEvent(handled[i].out[1].line) = handled[i].ev
        /\ Len(Stdout) = Cardinality(LogPositions) + Len(handled)

C28_Witness ==
    /\ config.JSONOutput
    /\ ~config.Verbose
    /\ uploadErr = NoErr
    /\ Cardinality(LogPositions) = 2
    /\ Len(handled) = 2
    /\ handled[1].ev = Event("source", "", "", "", "", "", "", "", "usb")
    /\ DOMAIN handled[1].out[1].line = {"type", "source"}

(***************************************************************************)
(* A file that cannot be opened                                            *)
(***************************************************************************)

\* There is nothing at config.Filename that can be opened for reading.
CannotOpen == config.Filename = "" \/ env.file \in {"missing", "unreadable"}
OpenError == Err("upload", "open", 0)

\* C29: uploadFirmware on a path that cannot be opened returns the "failed
\* to open file" error and does nothing else: its step writes nothing and
\* sends nothing; Update returns that error, no upload record and no upload
\* request exist in the run, and uploadFirmware is not called again.
C29_OpenFailureHasNoEffect ==
    /\ [][pc = "upload" /\ pc' # "upload" /\ CannotOpen
            => /\ uploadErr' = OpenError
               /\ result' = OpenError
               /\ pc' = "returned"
               /\ sink' = sink
               /\ net' = net]_vars
    /\ [](uploadErr = OpenError <=> (CannotOpen /\ Has(calls, "uploadFirmware")))
    /\ [](uploadErr = OpenError
            => /\ Returned
               /\ result = OpenError
               /\ UploadRecords = <<>>
               /\ ~Has(net, "POST /upload")
               /\ Count(calls, "uploadFirmware") = 1
               /\ ~Has(calls, "Sleep"))

C29_Witness ==
    /\ env.entry = "Update"
    /\ config.Filename = "fw.swu"
    /\ env.file = "missing"
    /\ connErr = NoErr
    /\ uploadErr = OpenError
    /\ Returned
    /\ lpc = "done"

(***************************************************************************)
(* connectWebSocket on a scope that is done                                *)
(***************************************************************************)

ConnectReturns == connErr = Pending /\ connErr' # Pending

\* C30: connectWebSocket on a context that is cancelled or past its deadline
\* when it is called, or whose deadline passes during the handshake, returns
\* an error; whenever it returns an error c.wsConn is what it was, so that a
\* client that did not connect has no connection; and listenWebSocket on a
\* client with no connection returns at once: nothing is read, nothing
\* written, and no loop is entered.
C30_FailedConnectLeavesNoConnection ==
    /\ [][ConnectReturns /\ (ScopeFired \/ ScopeFired') => Failed(connErr')]_vars
    /\ [][ConnectReturns /\ ScopeFired => net' = net]_vars
    /\ [][ConnectReturns /\ Failed(connErr') => wsConn' = wsConn]_vars
    /\ [](Failed(connErr) => wsConn = "nil" /\ lpc \in {"none", "done"})
    /\ [](Failed(connErr) => arrived = <<>> /\ handled = <<>>)
    /\ [][lpc = "none" /\ lpc' # "none" /\ wsConn = "nil"
            => /\ lpc' = "done"
               /\ wsConn' = "nil"
               /\ sink' = sink
               /\ inbox' = inbox]_vars

C30_Witness ==
    /\ env.deadline
    /\ now >= config.Timeout
    /\ connErr = Err("ws", "ctx", 0)
    /\ net = <<>>
    /\ wsConn = "nil"
    /\ lpc = "done"

(***************************************************************************)
(* C31: restart answers in 200..299                                        *)
(***************************************************************************)

RestartRecord == logMessage("restart", "INFO", <<"Device restart initiated">>)

\* C31: whenever the restart endpoint answers with a status in 200..299,
\* the restart succeeds: restartDevice returns no error, its 'restart
\* initiated' record is in the sink and no warning about the restart is.
C31_Any2xxRestartSucceeds ==
    /\ (restartErr.kind = "status" => ~Is2xx(restartErr.code))
    /\ (restartErr = NoErr
          => Has(sink, RestartRecord) /\ ~Has(sink, StdLog(WarnRestart)))

(***************************************************************************)
(* C32: severity of the record of a message event                          *)
(***************************************************************************)

\* C32 as stated: every record a message event yields has the event's level
\* as its severity.
C32_SeverityIsEventLevel ==
    \A h \in MessageEvents :
        \A k \in 1..Len(h.out) : h.out[k].level = h.ev.Level

\* C32 amended: a record a message event yields has the event's level as its
\* severity when that level is ERROR or WARN, and when JSON output is on
\* (the record is then the event itself); on the console, an event of any
\* other level, or of none, is recorded with severity INFO.
C32_SeverityIsEventLevelOrInfo ==
    \A h \in MessageEvents :
        \A k \in 1..Len(h.out) :
            h.out[k].level = IF Urgent(h) \/ config.JSONOutput
                             THEN h.ev.Level
                             ELSE "INFO"

\* C32 witness: a verbose console run records a DEBUG message, and one
\* without level, as INFO.
C32_Witness ==
    /\ ~config.JSONOutput
    /\ config.Verbose
    /\ \E h \in MessageEvents :
          /\ h.ev.Level \in {"DEBUG", ""}
          /\ OneRecord(h)
          /\ h.out[1].level = "INFO"
          /\ h.out[1].msg = <<h.ev.Text>>

(***************************************************************************)
(* C33: transport-configuration errors                                     *)
(***************************************************************************)

\* TLS is on and a trust root or client identity named by the flags cannot
\* be read or parsed.
BadTransportConfig == config.TLS /\ env.certs = "bad"

\* C33: with a transport configuration that cannot be built, Update returns
\* a failure, and it does so before the upload has begun: no upload start
\* record is ever in the sink and no upload request is ever sent.
C33_ConfigErrorIsPreflight ==
    (Entered /\ BadTransportConfig)
        => /\ Returned => Failed(result)
           /\ ~Has(sink, UploadStartRecord)
           /\ ~Has(net, "POST /upload")

(***************************************************************************)
(* C34: what main checks before it starts Update                           *)
(***************************************************************************)

\* main has called Update.
StartedByMain == env.entry = "main" /\ pc \notin {"main", "exited"}

\* C34: whenever main starts Update, the timeout of the configuration is
\* positive and the artifact it names exists and can be read.
C34_StartedConfigIsValid ==
    StartedByMain
        => /\ config.Timeout > 0
           /\ config.Filename # ""
           /\ env.file = "ok"

(***************************************************************************)
(* C35: what the two tasks share                                           *)
(***************************************************************************)

\* A step of Update or main; a step of listenWebSocket.
ForegroundStep == pc' # pc \/ calls' # calls
ListenerStep == lpc' # lpc /\ pc' = pc /\ calls' = calls

\* The go statement of Update has run.
ListenerStarted == lpc # "none"

\* C35: once the listener has been started, the connection c.wsConn changes
\* (is closed) only in steps of the listener and every step of the foreground
\* path leaves it as it is; no step of either task changes the configuration.
C35_HandleOwnedByListener ==
    [][/\ config' = config
       /\ (ListenerStarted /\ ForegroundStep) => wsConn' = wsConn
       /\ (ListenerStarted /\ wsConn' # wsConn) => ListenerStep]_vars

\* C35 witness: the listener has closed its connection after an upload that
\* succeeded, and Update has returned.
C35_Witness ==
    /\ lpc = "done"
    /\ wsConn = "closed"
    /\ Returned
    /\ result = NoErr
    /\ Has(calls, "restartDevice")

(***************************************************************************)
(* C36: whole records at the terminal                                      *)
(***************************************************************************)

\* The piece at place i is followed by the next piece of its record, when it
\* is not the last of it and something follows; it follows the piece before
\* it of its record, when it is not the first.
Continued(i) ==
    (written[i].part < written[i].of /\ i < Len(written))
        => /\ written[i + 1].task = written[i].task
           /\ written[i + 1].rec = written[i].rec
           /\ written[i + 1].part = written[i].part + 1
Continues(i) ==
    written[i].part > 1
        => /\ i > 1
           /\ written[i - 1].task = written[i].task
           /\ written[i - 1].rec = written[i].rec
           /\ written[i - 1].part = written[i].part - 1

ConsoleRecords == {sink[i] : i \in {k \in 1..Len(sink) : sink[k].ch = "console"}}

ShownCategories == {"status", "progress"}
ForegroundCategories == {"upload", "restart", "connection", "completion"}

\* C37: with JSON output off every ERROR and WARN record is printed and an
\* INFO record is printed exactly if verbose is on or its category is
\* status or progress; so without verbose every printed record is an ERROR
\* or WARN record or one of category status or progress, and the upload,
\* restart, connection and completion records are not printed.
C37_ConsoleFilter ==
    ~config.JSONOutput =>
        \A r \in ConsoleRecords :
            /\ r.level \in {"ERROR", "WARN"} => r.printed
            /\ r.level = "INFO"
                  => (r.printed <=> (config.Verbose \/ r.type \in ShownCategories))
            /\ (~config.Verbose /\ r.printed)
                  => (r.level \in {"ERROR", "WARN"} \/ r.type \in ShownCategories)
            /\ (~config.Verbose /\ r.type \in ForegroundCategories) => ~r.printed

\* C37 witness: a run without verbose that ended with success has printed a
\* warning and a status line, and none of its four kinds of own records.
C37_Witness ==
    /\ ~config.Verbose
    /\ exitCode = 0
    /\ \A c \in ForegroundCategories :
          \E r \in ConsoleRecords : r.type = c /\ ~r.printed
    /\ \E r \in ConsoleRecords : r.level = "WARN" /\ r.printed
    /\ \E r \in ConsoleRecords : r.level = "INFO" /\ r.type = "status" /\ r.printed

(***************************************************************************)
(* C38: the listener after the return of Update                            *)
(***************************************************************************)

\* C38: once Update has returned, no step of the listener writes to the
\* sink: every record caused by an event is written before the return, and
\* so before the completion record of main.
C38_ListenerSilentAfterReturn ==
    [][(Returned /\ ListenerStep) => sink' = sink]_vars

(***************************************************************************)
(* C39: a completed upload                                                 *)
(***************************************************************************)

\* C39: from the moment uploadFirmware has returned success, the result of
\* Update is never a failure and is success once Update has returned,
\* whatever happens afterwards (the caller's context cancelled or expired,
\* the listener ended, the restart failed); and the settling delay is
\* neither skipped nor cut short: every step out of it has waited its full
\* time, with the context done or not.
C39_SuccessIsFinal ==
    /\ [](uploadErr = NoErr
            => /\ ~Failed(result)
               /\ exitCode # 1
               /\ Returned => (result = NoErr /\ Has(calls, "Sleep")))
    /\ [][uploadErr = NoErr => uploadErr' = NoErr]_vars
    /\ [][(pc = "sleep" /\ pc' # pc) => now' = now + SettleDelay]_vars

\* C39 witness: the caller cancelled after the upload had succeeded; the
\* delay was served, the restart was refused by the cancelled context, the
\* listener has ended, and Update returned success.
C39_Witness ==
    /\ Returned
    /\ result = NoErr
    /\ cancelled
    /\ now >= SettleDelay
    /\ restartErr = Err("restart", "ctx", 0)
    /\ ~Has(net, "POST /restart")
    /\ lpc = "done"

====
